---- MODULE Spec2Model ----
(***************************************************************************)
(* bodylabs_rigger: rig construction for a fixed-topology body mesh.       *)
(*                                                                         *)
(*   joint_positions.py  calculate_joint_position(s)                       *)
(*   factory.py          RiggedModelFactory.construct_rig and its helpers  *)
(*   rig_assets.py       JointTree, ControlPointCluster                    *)
(*                                                                         *)
(* Numbers.  Coordinates are fixed-point rationals counted in units of     *)
(* 1/Unit, relative positions are counted in halves.  With these units     *)
(* every product with a relative position and every division by three in  *)
(* the code is exact, so the arithmetic below is the arithmetic of the     *)
(* code over the rationals.  The rounding of IEEE doubles is not modelled. *)
(*                                                                         *)
(* Scene graph.  FbxNode.Create gives a node with identity rotation and    *)
(* scale and zero translation, and the code only ever sets LclTranslation, *)
(* so every transform matrix the code meets is a pure translation.  A      *)
(* matrix is modelled by its translation vector: the product adds, the     *)
(* inverse negates, the identity is the zero vector.                       *)
(***************************************************************************)
EXTENDS Integers, Sequences, FiniteSets, TLC

VARIABLES
    pc,                  \* position of construct_rig
    vertices,            \* the Vx3 vertex array of this call
    joint_tree,          \* self._joint_tree: flat JointTree objects, root is 1
    joint_position_spec, \* self._joint_position_spec
    clusters,            \* self._clusters
    nodes,               \* the FbxNodes of fbx_scene, in creation order
    joint_location_map,  \* target_joint_positions
    stack,               \* the active calls of _extend_skeleton, innermost last
    fbx_node_map,        \* the map _extend_skeleton returned to construct_rig
    todo,                \* keys of fbx_node_map the skin loop has not visited
    skin,                \* the FbxSkin: its clusters, in the order added
    bind_pose,           \* the FbxPose: (node, matrix) entries, in the order added
    deformers,           \* the deformers of the mesh
    poses,               \* the poses of the scene
    printed,             \* what the code printed, in order
    relative_position_default, \* the list object that is the default of
                         \* calculate_joint_position's relative_position
    scenes,              \* the scenes earlier construct_rig calls returned
    assets,              \* a RigAssets object
    json_doc,            \* what RigAssets.to_json returned
    loaded               \* what RigAssets.from_json returned

vars == <<pc, vertices, joint_tree, joint_position_spec, clusters, nodes,
          joint_location_map, stack, fbx_node_map, todo, skin, bind_pose,
          deformers, poses, printed, relative_position_default, scenes,
          assets, json_doc, loaded>>

\* what construct_rig on a fresh factory never touches: the default list,
\* earlier scenes, and the asset files of RigAssets
aside == <<relative_position_default, scenes, assets, json_doc, loaded>>

-----------------------------------------------------------------------------
(* Bounds and input sets *)

\* the largest number of reference vertices of a joint
MaxRefs == 3

\* one coordinate unit is 1/Unit: halves for relative positions, thirds for
\* the shoulder rule
Unit == 2 * 3

Vtx(x, y, z) == <<Unit * x, Unit * y, Unit * z>>

MeshA == << Vtx(0, 0, 0), Vtx(3, 3, 3), Vtx(-3, 6, 0), Vtx(1, -2, 4) >>
MeshB == << Vtx(2, -1, 5), Vtx(-4, 0, 1), Vtx(0, 2, -2), Vtx(5, 5, -3) >>
Meshes == {MeshA, MeshB}

\* relative positions in halves: -0.5, 0, 0.5, 1, 1.5
RelValues == {-1, 0, 1, 2, 3}
RelPositions == {<<a, b, c>> : a \in RelValues, b \in RelValues, c \in RelValues}

-----------------------------------------------------------------------------
(* Dicts: functions from a finite set of names *)

EmptyDict == [n \in {} |-> 0]

\* d[k] = v
Put(d, k, v) == [n \in DOMAIN d \cup {k} |-> IF n = k THEN v ELSE d[n]]

\* d.update(e)
Update(d, e) == [n \in DOMAIN d \cup DOMAIN e |-> IF n \in DOMAIN e THEN e[n] ELSE d[n]]

\* dict restricted to the keys in s
Restrict(d, s) == [n \in DOMAIN d \cap s |-> d[n]]

-----------------------------------------------------------------------------
(* Vectors *)

Zero3 == <<0, 0, 0>>
PAdd(a, b) == <<a[1] + b[1], a[2] + b[2], a[3] + b[3]>>
PSub(a, b) == <<a[1] - b[1], a[2] - b[2], a[3] - b[3]>>
\* componentwise product with a relative position given in halves
PTimes(a, r) == <<(a[1] * r[1]) \div 2, (a[2] * r[2]) \div 2, (a[3] * r[3]) \div 2>>
\* division of every component by three
PThird(a) == <<a[1] \div 3, a[2] \div 3, a[3] \div 3>>

Min2(a, b) == IF a <= b THEN a ELSE b
Max2(a, b) == IF a >= b THEN a ELSE b

RECURSIVE NpMin(_)
\* np.min(joint_vertices, axis=0)
NpMin(pts) ==
    IF Len(pts) = 1 THEN pts[1]
    ELSE LET m == NpMin(Tail(pts)) IN
         <<Min2(pts[1][1], m[1]), Min2(pts[1][2], m[2]), Min2(pts[1][3], m[3])>>

RECURSIVE NpMax(_)
\* np.max(joint_vertices, axis=0)
NpMax(pts) ==
    IF Len(pts) = 1 THEN pts[1]
    ELSE LET m == NpMax(Tail(pts)) IN
         <<Max2(pts[1][1], m[1]), Max2(pts[1][2], m[2]), Max2(pts[1][3], m[3])>>

-----------------------------------------------------------------------------
(* joint_positions.py *)

\* the default of the relative_position parameter: [0.5, 0.5, 0.5], a list
\* made once, when the function is defined
DefaultRelativePosition == <<1, 1, 1>>

\* vertices[reference_vertices, :].reshape(-1, 3); vertex indices count from 0
JointVertices(v, reference_vertices) ==
    [i \in 1..Len(reference_vertices) |-> v[reference_vertices[i] + 1]]

\* variant: the two-vertex case takes the min/max extrema too
calculate_joint_position_sorted(v, reference_vertices, relative_position) ==
    LET joint_vertices == JointVertices(v, reference_vertices)
        v1 == NpMin(joint_vertices)
        v2 == NpMax(joint_vertices)
    IN  PAdd(v1, PTimes(PSub(v2, v1), relative_position))

\* variant: the extrema are always the first and the last reference vertex
calculate_joint_position_ends(v, reference_vertices, relative_position) ==
    LET joint_vertices == JointVertices(v, reference_vertices)
        v1 == joint_vertices[1]
        v2 == joint_vertices[Len(joint_vertices)]
    IN  PAdd(v1, PTimes(PSub(v2, v1), relative_position))

\* variant: the blend scales v2 instead of v2 - v1
calculate_joint_position_unsub(v, reference_vertices, relative_position) ==
    LET joint_vertices == JointVertices(v, reference_vertices)
        many == Len(joint_vertices) > 2
        v1 == IF many THEN NpMin(joint_vertices) ELSE joint_vertices[1]
        v2 == IF many THEN NpMax(joint_vertices)
                      ELSE joint_vertices[Len(joint_vertices)]
    IN  PAdd(v1, PTimes(v2, relative_position))

calculate_joint_position(v, reference_vertices, relative_position) ==
    LET joint_vertices == JointVertices(v, reference_vertices)
        many == Len(joint_vertices) > 2
        v1 == IF many THEN NpMin(joint_vertices) ELSE joint_vertices[1]
        v2 == IF many THEN NpMax(joint_vertices)
                      ELSE joint_vertices[Len(joint_vertices)]
    IN  PAdd(v1, PTimes(PSub(v2, v1), relative_position))

\* calculate_joint_position(vertices, **joint_spec)
ApplyJointSpec(v, joint_spec) ==
    calculate_joint_position(
        v, joint_spec.reference_vertices,
        IF "relative_position" \in DOMAIN joint_spec
        THEN joint_spec.relative_position ELSE relative_position_default)

\* the loop of calculate_joint_positions: one entry per joint of the spec
GenericPositions(v, spec) == [n \in DOMAIN spec |-> ApplyJointSpec(v, spec[n])]

\* neck_pos + (arm_pos - neck_pos) / 3.
ShoulderPosition(neck_pos, arm_pos) == PAdd(neck_pos, PThird(PSub(arm_pos, neck_pos)))

UnrecognizedJoint(name) == [kind |-> "Unrecognized joint name", name |-> name]

\* variant: the shoulders are set only when all three joints are there
ShoulderSpecialCase_atomic(m) ==
    IF \E n \in {"Neck", "LeftArm", "RightArm"} : n \notin DOMAIN m
    THEN [map |-> m,
          out |-> <<UnrecognizedJoint(
                      IF "Neck" \notin DOMAIN m THEN "Neck"
                      ELSE IF "LeftArm" \notin DOMAIN m THEN "LeftArm"
                      ELSE "RightArm")>>]
    ELSE [map |-> Put(Put(m, "LeftShoulder", ShoulderPosition(m["Neck"], m["LeftArm"])),
                      "RightShoulder", ShoulderPosition(m["Neck"], m["RightArm"])),
          out |-> <<>>]

\* variant: a shoulder the spec positions itself is kept
ShoulderSpecialCase_keep(m) ==
    LET put(d, k, val) == IF k \in DOMAIN d THEN d ELSE Put(d, k, val) IN
    IF "Neck" \notin DOMAIN m
    THEN [map |-> m, out |-> <<UnrecognizedJoint("Neck")>>]
    ELSE IF "LeftArm" \notin DOMAIN m
    THEN [map |-> m, out |-> <<UnrecognizedJoint("LeftArm")>>]
    ELSE LET m1 == put(m, "LeftShoulder", ShoulderPosition(m["Neck"], m["LeftArm"]))
         IN  IF "RightArm" \notin DOMAIN m1
             THEN [map |-> m1, out |-> <<UnrecognizedJoint("RightArm")>>]
             ELSE [map |-> put(m1, "RightShoulder",
                               ShoulderPosition(m1["Neck"], m1["RightArm"])),
                   out |-> <<>>]

\* the try block of calculate_joint_positions: the statements run in order
\* until the first lookup of a missing key, whose KeyError is printed
ShoulderSpecialCase(m) ==
    IF "Neck" \notin DOMAIN m
    THEN [map |-> m, out |-> <<UnrecognizedJoint("Neck")>>]
    ELSE IF "LeftArm" \notin DOMAIN m
    THEN [map |-> m, out |-> <<UnrecognizedJoint("LeftArm")>>]
    ELSE LET m1 == Put(m, "LeftShoulder", ShoulderPosition(m["Neck"], m["LeftArm"]))
         IN  IF "RightArm" \notin DOMAIN m1
             THEN [map |-> m1, out |-> <<UnrecognizedJoint("RightArm")>>]
             ELSE [map |-> Put(m1, "RightShoulder",
                               ShoulderPosition(m1["Neck"], m1["RightArm"])),
                   out |-> <<>>]

-----------------------------------------------------------------------------
(* rig_assets.py: the static inputs *)

\* no RigAssets object, no document
NoAssets == [kind |-> "none"]

\* JointTree(name, children): children=None becomes the empty list
JointTree(name, children) == [name |-> name, children |-> children]

\* ControlPointCluster(indices, weights)
ControlPointCluster(indices, weights) == [indices |-> indices, weights |-> weights]

\* Root -> Neck -> (LeftShoulder -> LeftArm, RightShoulder -> RightArm)
TreeBody == <<
    JointTree("Root", <<2>>),
    JointTree("Neck", <<3, 5>>),
    JointTree("LeftShoulder", <<4>>),
    JointTree("LeftArm", <<>>),
    JointTree("RightShoulder", <<6>>),
    JointTree("RightArm", <<>>) >>

\* Neck -> (LeftArm -> Hand, Head); the objects are stored out of visit order
TreeArm == <<
    JointTree("Neck", <<3, 2>>),
    JointTree("Head", <<>>),
    JointTree("LeftArm", <<4>>),
    JointTree("Hand", <<>>) >>

\* two pairs of nodes share a name: Neck -> (LeftArm -> Neck, LeftArm)
TreeDup == <<
    JointTree("Neck", <<2, 4>>),
    JointTree("LeftArm", <<3>>),
    JointTree("Neck", <<>>),
    JointTree("LeftArm", <<>>) >>

Trees == {TreeBody, TreeArm, TreeDup}

\* a joint of the position spec; without rel the entry has no
\* "relative_position" key
JointSpec(refs, rel) == [reference_vertices |-> refs, relative_position |-> rel]
JointSpecNoRel(refs) == [reference_vertices |-> refs]

FullSpec ==
    [n \in {"Neck", "LeftArm", "RightArm", "LeftShoulder", "RightShoulder", "Hand"} |->
        CASE n = "Neck"          -> JointSpec(<<0>>, <<2, 0, 1>>)
          [] n = "LeftArm"       -> JointSpecNoRel(<<1>>)
          [] n = "RightArm"      -> JointSpecNoRel(<<2, 3>>)
          [] n = "LeftShoulder"  -> JointSpec(<<0, 1, 2>>, <<0, 1, 2>>)
          [] n = "RightShoulder" -> JointSpec(<<3, 2>>, <<1, 2, 0>>)
          [] n = "Hand"          -> JointSpec(<<1, 2, 3, 0>>, <<1, 1, 2>>)]

ShoulderRuleNames == {"Neck", "LeftArm", "RightArm", "LeftShoulder", "RightShoulder"}

\* every choice of which of the five shoulder-rule joints the spec positions
PositionSpecs == {Restrict(FullSpec, s \cup {"Hand"}) : s \in SUBSET ShoulderRuleNames}

\* weights are counted in hundredths
FullClusters ==
    [n \in {"Neck", "LeftArm", "Ghost"} |->
        CASE n = "Neck"    -> ControlPointCluster(<<0, 1, 2>>, <<100, 50, 25>>)
          [] n = "LeftArm" -> ControlPointCluster(<<1, 3>>, <<50, 100>>)
          [] n = "Ghost"   -> ControlPointCluster(<<2>>, <<100>>)]

ClusterSets == {FullClusters, Restrict(FullClusters, {"LeftArm", "Ghost"}), EmptyDict}

-----------------------------------------------------------------------------
(* The scene graph (FBX SDK objects as factory.py uses them) *)

\* the scene's root node; it is never moved
RootNode == 0

\* FbxNode.Create(fbx_scene, name), with its attribute and its parent set
FbxNode(name, parent, attr) ==
    [name |-> name, parent |-> parent, attr |-> attr, lcl |-> Zero3]

\* FbxAMatrix: product, inverse, identity with SetT(t)
MatMul(a, b) == PAdd(a, b)
MatInverse(a) == PSub(Zero3, a)
MatTranslation(t) == t

RECURSIVE EvaluateGlobalTransform(_, _)
\* fbx_node.EvaluateGlobalTransform(): the parent's global transform times
\* the node's local transform
EvaluateGlobalTransform(ns, n) ==
    IF n = RootNode THEN MatTranslation(Zero3)
    ELSE MatMul(EvaluateGlobalTransform(ns, ns[n].parent), MatTranslation(ns[n].lcl))

\* variant: the parent's global transform is not taken out
SetNodeTranslation_noparent(location, n, ns) ==
    LET global_pos_mat == MatTranslation(location)
        current_global_pos_mat == EvaluateGlobalTransform(ns, n)
        parent_global_pos_mat == EvaluateGlobalTransform(ns, ns[n].parent)
        current_local_translation == MatTranslation(ns[n].lcl)
        new_local_translation ==
            MatMul(MatMul(MatMul(
                global_pos_mat,
                MatInverse(current_global_pos_mat)),
                parent_global_pos_mat),
                current_local_translation)
    IN  [ns EXCEPT ![n].lcl = new_local_translation]

\* _set_node_translation(location, fbx_node): the scene's nodes afterwards
SetNodeTranslation(location, n, ns) ==
    LET global_pos_mat == MatTranslation(location)
        current_global_pos_mat == EvaluateGlobalTransform(ns, n)
        parent_global_pos_mat == EvaluateGlobalTransform(ns, ns[n].parent)
        current_local_translation == MatTranslation(ns[n].lcl)
        new_local_translation ==
            MatMul(MatMul(MatMul(MatMul(
                MatInverse(parent_global_pos_mat),
                global_pos_mat),
                MatInverse(current_global_pos_mat)),
                parent_global_pos_mat),
                current_local_translation)
    IN  [ns EXCEPT ![n].lcl = new_local_translation]

\* zip(vindices, weights)
Zip(a, b) == [i \in 1..Min2(Len(a), Len(b)) |-> <<a[i], b[i]>>]

MissingPosition(name) == [kind |-> "Position information missing", name |-> name]

-----------------------------------------------------------------------------
(* factory.py: RiggedModelFactory.construct_rig, step by step *)

MeshNode == 1

\* _set_mesh: the mesh node 'BodyLabs_body' is added under the scene's root
SetMesh ==
    /\ pc = "set_mesh"
    /\ nodes' = Append(nodes, FbxNode("BodyLabs_body", RootNode, "mesh"))
    /\ pc' = "positions"
    /\ UNCHANGED aside
    /\ UNCHANGED <<vertices, joint_tree, joint_position_spec, clusters,
                   joint_location_map, stack, fbx_node_map, todo, skin,
                   bind_pose, deformers, poses, printed>>

\* variant: the relative position is scaled in place, so the shared default
\* list changes whenever a joint without its own relative_position uses it
CalculateGeneric_inplace ==
    /\ pc = "positions"
    /\ joint_location_map' = GenericPositions(vertices, joint_position_spec)
    /\ relative_position_default' =
           IF \E n \in DOMAIN joint_position_spec :
                  "relative_position" \notin DOMAIN joint_position_spec[n]
           THEN PTimes(relative_position_default, relative_position_default)
           ELSE relative_position_default
    /\ pc' = "shoulders"
    /\ UNCHANGED <<scenes, assets, json_doc, loaded>>
    /\ UNCHANGED <<vertices, joint_tree, joint_position_spec, clusters, nodes,
                   stack, fbx_node_map, todo, skin, bind_pose, deformers,
                   poses, printed>>

\* calculate_joint_positions, the loop over the spec
CalculateGeneric ==
    /\ pc = "positions"
    /\ joint_location_map' = GenericPositions(vertices, joint_position_spec)
    /\ pc' = "shoulders"
    /\ UNCHANGED aside
    /\ UNCHANGED <<vertices, joint_tree, joint_position_spec, clusters, nodes,
                   stack, fbx_node_map, todo, skin, bind_pose, deformers,
                   poses, printed>>

\* calculate_joint_positions, the try block and the return
CalculateShoulders ==
    /\ pc = "shoulders"
    /\ LET r == ShoulderSpecialCase(joint_location_map) IN
        /\ joint_location_map' = r.map
        /\ printed' = printed \o r.out
    /\ pc' = "extend"
    /\ UNCHANGED aside
    /\ UNCHANGED <<vertices, joint_tree, joint_position_spec, clusters, nodes,
                   stack, fbx_node_map, todo, skin, bind_pose, deformers, poses>>

\* the frame of one call of _extend_skeleton: its reference_joint_tree, the
\* node it created, its fbx_node_map and the position of its loop over the
\* children
Frame(tree, node, map, next) == [tree |-> tree, node |-> node, map |-> map, next |-> next]

Top == stack[Len(stack)]

\* variant: a joint without a position is placed at the origin
ExtendBody_origin(parent_fbx_node, tree, ns, positions) ==
    LET node_name == joint_tree[tree].name
        node == Len(ns) + 1
        created == Append(ns, FbxNode(node_name, parent_fbx_node, "skeleton"))
        placed == node_name \in DOMAIN positions
    IN  [nodes |-> SetNodeTranslation(IF placed THEN positions[node_name] ELSE Zero3,
                                      node, created),
         out   |-> IF placed THEN <<>> ELSE <<MissingPosition(node_name)>>,
         frame |-> Frame(tree, node, Put(EmptyDict, node_name, node), 1)]

\* the call's body up to its loop: create the bone under parent_fbx_node,
\* enter it in the call's own map, place it or report the missing position
ExtendBody(parent_fbx_node, tree, ns, positions) ==
    LET node_name == joint_tree[tree].name
        node == Len(ns) + 1
        created == Append(ns, FbxNode(node_name, parent_fbx_node, "skeleton"))
        placed == node_name \in DOMAIN positions
    IN  [nodes |-> IF placed
                   THEN SetNodeTranslation(positions[node_name], node, created)
                   ELSE created,
         out   |-> IF placed THEN <<>> ELSE <<MissingPosition(node_name)>>,
         frame |-> Frame(tree, node, Put(EmptyDict, node_name, node), 1)]

\* _extend_skeleton is entered: by construct_rig for the root of the joint
\* tree under the scene's root, or by the innermost call for its next child
ExtendSkeletonCall ==
    /\ pc = "extend"
    /\ \/ stack = <<>>
       \/ /\ stack # <<>>
          /\ Top.next <= Len(joint_tree[Top.tree].children)
    /\ LET parent_fbx_node == IF stack = <<>> THEN RootNode ELSE Top.node
           tree == IF stack = <<>> THEN 1
                   ELSE joint_tree[Top.tree].children[Top.next]
           r == ExtendBody(parent_fbx_node, tree, nodes, joint_location_map)
       IN  /\ nodes' = r.nodes
           /\ printed' = printed \o r.out
           /\ stack' = Append(stack, r.frame)
    /\ UNCHANGED aside
    /\ UNCHANGED <<pc, vertices, joint_tree, joint_position_spec, clusters,
                   joint_location_map, fbx_node_map, todo, skin, bind_pose,
                   deformers, poses>>

\* variant: the child's map is dropped
MergeReturned_dropped(frame, map) == [frame EXCEPT !.next = frame.next + 1]

\* variant: an entry the caller already has is kept
MergeReturned_kept(frame, map) ==
    [frame EXCEPT !.map = Update(map, frame.map), !.next = frame.next + 1]

\* what the caller's frame becomes when a child call returns map
MergeReturned(frame, map) ==
    [frame EXCEPT !.map = Update(frame.map, map), !.next = frame.next + 1]

\* the innermost call has visited all its children and returns its map: to
\* the calling frame, which merges it, or to construct_rig
ExtendSkeletonReturn ==
    /\ pc = "extend"
    /\ stack # <<>>
    /\ Top.next > Len(joint_tree[Top.tree].children)
    /\ IF Len(stack) = 1
       THEN /\ fbx_node_map' = Top.map
            /\ stack' = <<>>
            /\ pc' = "skin"
       ELSE /\ stack' = [SubSeq(stack, 1, Len(stack) - 1) EXCEPT
                            ![Len(stack) - 1] = MergeReturned(stack[Len(stack) - 1], Top.map)]
            /\ UNCHANGED <<fbx_node_map, pc>>
    /\ UNCHANGED aside
    /\ UNCHANGED <<vertices, joint_tree, joint_position_spec, clusters, nodes,
                   joint_location_map, todo, skin, bind_pose, deformers,
                   poses, printed>>

PoseEntry(node, matrix) == [node |-> node, matrix |-> matrix]

\* _add_skin_and_bind_pose up to its loop: the pose starts with the mesh node
AddSkinBegin ==
    /\ pc = "skin"
    /\ skin' = <<>>
    /\ bind_pose' = <<PoseEntry(MeshNode, EvaluateGlobalTransform(nodes, MeshNode))>>
    /\ todo' = DOMAIN fbx_node_map
    /\ pc' = "skin_loop"
    /\ UNCHANGED aside
    /\ UNCHANGED <<vertices, joint_tree, joint_position_spec, clusters, nodes,
                   joint_location_map, stack, fbx_node_map, deformers, poses,
                   printed>>

\* variant: the weights of a cluster are scaled to sum to one
Cluster_normalized(node, cluster_info, ns) ==
    LET w == cluster_info.weights
        sum[i \in 0..Len(w)] == IF i = 0 THEN 0 ELSE sum[i - 1] + w[i]
    IN  [link      |-> node,
         mode      |-> "eNormalize",
         points    |-> [i \in 1..Min2(Len(cluster_info.indices), Len(w)) |->
                           <<cluster_info.indices[i], (w[i] * 100) \div sum[Len(w)]>>],
         transform |-> EvaluateGlobalTransform(ns, node)]

\* the FbxCluster of one joint
Cluster(node, cluster_info, ns) ==
    [link      |-> node,
     mode      |-> "eNormalize",
     points    |-> Zip(cluster_info.indices, cluster_info.weights),
     transform |-> EvaluateGlobalTransform(ns, node)]

\* variant: the pose entry is added before the cluster lookup
SkinLoopBody_poseall(node_name, node, ns) ==
    IF node_name \notin DOMAIN clusters
    THEN [skin |-> <<>>,
          pose |-> <<PoseEntry(node, EvaluateGlobalTransform(ns, node))>>]
    ELSE LET cluster == Cluster(node, clusters[node_name], ns)
         IN  [skin |-> <<cluster>>,
              pose |-> <<PoseEntry(node, cluster.transform)>>]

\* one pass of the loop body over (node_name, node), as a record of what it
\* adds to the skin and to the bind pose
SkinLoopBody(node_name, node, ns) ==
    IF node_name \notin DOMAIN clusters
    THEN [skin |-> <<>>, pose |-> <<>>]
    ELSE LET cluster == Cluster(node, clusters[node_name], ns)
         IN  [skin |-> <<cluster>>,
              pose |-> <<PoseEntry(node, cluster.transform)>>]

\* the loop of _add_skin_and_bind_pose visits the next item of fbx_node_map;
\* a dict fixes no order
AddSkinVisit ==
    /\ pc = "skin_loop"
    /\ \E node_name \in todo :
        LET r == SkinLoopBody(node_name, fbx_node_map[node_name], nodes) IN
        /\ skin' = skin \o r.skin
        /\ bind_pose' = bind_pose \o r.pose
        /\ todo' = todo \ {node_name}
    /\ UNCHANGED aside
    /\ UNCHANGED <<pc, vertices, joint_tree, joint_position_spec, clusters,
                   nodes, joint_location_map, stack, fbx_node_map, deformers,
                   poses, printed>>

\* after the loop: the skin becomes a deformer of the mesh, the pose is
\* added to the scene, construct_rig returns the scene
AddSkinEnd ==
    /\ pc = "skin_loop"
    /\ todo = {}
    /\ deformers' = Append(deformers, skin)
    /\ poses' = Append(poses, bind_pose)
    /\ pc' = "done"
    /\ UNCHANGED aside
    /\ UNCHANGED <<vertices, joint_tree, joint_position_spec, clusters, nodes,
                   joint_location_map, stack, fbx_node_map, todo, skin,
                   bind_pose, printed>>

\* a RiggedModelFactory and the vertices of one construct_rig call on a
\* fresh scene
Init ==
    /\ pc = "set_mesh"
    /\ vertices \in Meshes
    /\ joint_tree \in Trees
    /\ joint_position_spec \in PositionSpecs
    /\ clusters \in ClusterSets
    /\ nodes = <<>>
    /\ joint_location_map = EmptyDict
    /\ stack = <<>>
    /\ fbx_node_map = EmptyDict
    /\ todo = {}
    /\ skin = <<>>
    /\ bind_pose = <<>>
    /\ deformers = <<>>
    /\ poses = <<>>
    /\ printed = <<>>
    /\ relative_position_default = DefaultRelativePosition
    /\ scenes = <<>>
    /\ assets = NoAssets
    /\ json_doc = NoAssets
    /\ loaded = NoAssets

Next ==
    \/ SetMesh
    \/ CalculateGeneric
    \/ CalculateShoulders
    \/ ExtendSkeletonCall
    \/ ExtendSkeletonReturn
    \/ AddSkinBegin
    \/ AddSkinVisit
    \/ AddSkinEnd

Spec == Init /\ [][Next]_vars

-----------------------------------------------------------------------------
(* calculate_joint_position on its own: one joint, every list of up to     *)
(* MaxRefs reference vertices, every relative position, with and without   *)
(* the relative_position key.  An empty reference list and an index        *)
(* outside the vertex array raise IndexError and are left out.             *)

VertexIds == 0..(Len(MeshA) - 1)
RefLists == UNION {[1..n -> VertexIds] : n \in 1..MaxRefs}
OneJointSpecs ==
    {Put(EmptyDict, "Joint", JointSpec(refs, rel)) : refs \in RefLists, rel \in RelPositions}
    \cup {Put(EmptyDict, "Joint", JointSpecNoRel(refs)) : refs \in RefLists}

InitPos ==
    /\ pc = "positions"
    /\ vertices \in Meshes
    /\ joint_tree = TreeArm
    /\ joint_position_spec \in OneJointSpecs
    /\ clusters = EmptyDict
    /\ nodes = <<FbxNode("BodyLabs_body", RootNode, "mesh")>>
    /\ joint_location_map = EmptyDict
    /\ stack = <<>>
    /\ fbx_node_map = EmptyDict
    /\ todo = {}
    /\ skin = <<>>
    /\ bind_pose = <<>>
    /\ deformers = <<>>
    /\ poses = <<>>
    /\ printed = <<>>
    /\ relative_position_default = DefaultRelativePosition
    /\ scenes = <<>>
    /\ assets = NoAssets
    /\ json_doc = NoAssets
    /\ loaded = NoAssets

NextPos == CalculateGeneric

SpecPos == InitPos /\ [][NextPos]_vars

-----------------------------------------------------------------------------
(* Properties of the Landmark Resolver *)

\* the generic positions have been computed and not yet touched by the
\* shoulder rule
GenericDone == pc = "shoulders"

\* the relative position a spec entry is resolved with
RelOf(js) ==
    IF "relative_position" \in DOMAIN js THEN js.relative_position ELSE <<1, 1, 1>>

\* the reference points of a spec entry, in list order
PtsOf(js) == [i \in 1..Len(js.reference_vertices) |-> vertices[js.reference_vertices[i] + 1]]

Axes == 1..3

Orderings(n) == {f \in [1..n -> 1..n] : \A i, j \in 1..n : f[i] = f[j] => i = j}

\* C8: with exactly two reference vertices [A, B] the position is
\* A + (B - A) * relative_position on every axis, A and B in list order; with
\* relative position one half on every axis it is the midpoint of A and B.
\* (Relative positions are in halves, hence the factor 2.)
C8_TwoVertexBlend ==
    GenericDone =>
        \A n \in DOMAIN joint_position_spec :
            LET js == joint_position_spec[n]
                pts == PtsOf(js)
                r == RelOf(js)
                p == joint_location_map[n]
            IN  Len(pts) = 2 =>
                    \A k \in Axes :
                        /\ 2 * p[k] = 2 * pts[1][k] + (pts[2][k] - pts[1][k]) * r[k]
                        /\ r = <<1, 1, 1>> => 2 * p[k] = pts[1][k] + pts[2][k]

\* a two-vertex joint with A above B on the first axis and below it on the
\* second, resolved at relative position (1, 0.5, 0): B, the midpoint, A
C8_Witness ==
    /\ GenericDone
    /\ \E n \in DOMAIN joint_position_spec :
        LET js == joint_position_spec[n]
            pts == PtsOf(js)
        IN  /\ Len(pts) = 2
            /\ pts[1][1] > pts[2][1]
            /\ pts[1][2] < pts[2][2]
            /\ RelOf(js) = <<2, 1, 0>>
            /\ joint_location_map[n] =
                   <<pts[2][1], (pts[1][2] + pts[2][2]) \div 2, pts[1][3]>>

C10_SingleVertex ==
    GenericDone =>
        \A n \in DOMAIN joint_position_spec :
            LET js == joint_position_spec[n]
            IN  Len(js.reference_vertices) = 1 =>
                    joint_location_map[n] = vertices[js.reference_vertices[1] + 1]

\* a one-vertex joint away from the origin, resolved with a relative
\* position outside [0,1] on two axes
C10_Witness ==
    /\ GenericDone
    /\ \E n \in DOMAIN joint_position_spec :
        LET js == joint_position_spec[n]
        IN  /\ Len(js.reference_vertices) = 1
            /\ RelOf(js) = <<3, -1, 2>>
            /\ \A k \in Axes : joint_location_map[n][k] # 0

-----------------------------------------------------------------------------
(* Properties of the shoulder rule *)

\* calculate_joint_positions has returned
PositionsDone == pc \notin {"set_mesh", "positions", "shoulders"}

\* what the loop over the spec gave, before the shoulder rule
Generic == GenericPositions(vertices, joint_position_spec)

\* p = neck + (arm - neck) / 3 on every axis
IsThirdOfTheWay(p, neck, arm) == \A k \in Axes : 3 * (p[k] - neck[k]) = arm[k] - neck[k]

\* m is g except at the joints in names
SameExceptAt(m, g, names) ==
    /\ DOMAIN m = DOMAIN g \cup names
    /\ \A n \in DOMAIN g \ names : m[n] = g[n]

\* C1 as claimed: when Neck, LeftArm or RightArm has no generic position
\* the returned map is the generic map, with neither shoulder inserted or
\* overwritten.
C1_Original ==
    (PositionsDone /\ ~({"Neck", "LeftArm", "RightArm"} \subseteq DOMAIN Generic))
        => joint_location_map = Generic

\* C1 amended: when Neck or LeftArm has no generic position the returned map
\* is the generic map; when Neck and LeftArm have one and only RightArm has
\* none, LeftShoulder is still set to Neck + (LeftArm - Neck) / 3 and every
\* other entry, RightShoulder included, is as the generic rule left it.  In
\* each case the first missing name is reported and the call returns.
C1_ShoulderStepSkipped ==
    PositionsDone =>
        /\ ("Neck" \notin DOMAIN Generic) =>
              /\ joint_location_map = Generic
              /\ printed[1] = UnrecognizedJoint("Neck")
        /\ ("Neck" \in DOMAIN Generic /\ "LeftArm" \notin DOMAIN Generic) =>
              /\ joint_location_map = Generic
              /\ printed[1] = UnrecognizedJoint("LeftArm")
        /\ ({"Neck", "LeftArm"} \subseteq DOMAIN Generic /\ "RightArm" \notin DOMAIN Generic) =>
              /\ SameExceptAt(joint_location_map, Generic, {"LeftShoulder"})
              /\ IsThirdOfTheWay(joint_location_map["LeftShoulder"],
                                 Generic["Neck"], Generic["LeftArm"])
              /\ printed[1] = UnrecognizedJoint("RightArm")

\* only RightArm is missing, the spec positions both shoulders itself, and
\* the returned LeftShoulder is no longer the generic one while the returned
\* RightShoulder is
C1_Witness ==
    /\ PositionsDone
    /\ DOMAIN Generic \cap ShoulderRuleNames =
           {"Neck", "LeftArm", "LeftShoulder", "RightShoulder"}
    /\ joint_location_map["LeftShoulder"] # Generic["LeftShoulder"]
    /\ joint_location_map["RightShoulder"] = Generic["RightShoulder"]

\* C7: when Neck, LeftArm and RightArm all have a generic position, the
\* returned map holds LeftShoulder = Neck + (LeftArm - Neck) / 3 and
\* RightShoulder = Neck + (RightArm - Neck) / 3, in place of whatever the
\* generic rule gave for them, and every other entry is the generic one.
C7_ShoulderRule ==
    (PositionsDone /\ {"Neck", "LeftArm", "RightArm"} \subseteq DOMAIN Generic) =>
        /\ SameExceptAt(joint_location_map, Generic, {"LeftShoulder", "RightShoulder"})
        /\ IsThirdOfTheWay(joint_location_map["LeftShoulder"],
                           Generic["Neck"], Generic["LeftArm"])
        /\ IsThirdOfTheWay(joint_location_map["RightShoulder"],
                           Generic["Neck"], Generic["RightArm"])
        /\ printed = <<>> \/ printed[1].kind # "Unrecognized joint name"

\* Neck = (0,0,0) and LeftArm = (3,3,3) give LeftShoulder = (1,1,1), and the
\* spec's own positions of both shoulders have been replaced
C7_Witness ==
    /\ PositionsDone
    /\ ShoulderRuleNames \subseteq DOMAIN Generic
    /\ Generic["Neck"] = Vtx(0, 0, 0)
    /\ Generic["LeftArm"] = Vtx(3, 3, 3)
    /\ joint_location_map["LeftShoulder"] = Vtx(1, 1, 1)
    /\ joint_location_map["LeftShoulder"] # Generic["LeftShoulder"]
    /\ joint_location_map["RightShoulder"] # Generic["RightShoulder"]

-----------------------------------------------------------------------------
(* Properties of the Skeleton Builder *)

\* _extend_skeleton has returned to construct_rig
BuildDone == pc \in {"skin", "skin_loop", "done"}

\* the bones: the nodes that carry an FbxSkeleton
Bones == {n \in 1..Len(nodes) : nodes[n].attr = "skeleton"}

\* the k-th bone created
BoneAt(k) == CHOOSE n \in Bones : Cardinality({m \in Bones : m < n}) = k - 1

RECURSIVE PreOrderOf(_, _), PreOrderList(_, _)
\* the nodes of the subtree at i, parent before children, children in
\* stored order
PreOrderOf(t, i) == <<i>> \o PreOrderList(t, t[i].children)
PreOrderList(t, cs) ==
    IF cs = <<>> THEN <<>> ELSE PreOrderOf(t, Head(cs)) \o PreOrderList(t, Tail(cs))

PreOrder == PreOrderOf(joint_tree, 1)

\* the position in PreOrder of tree node i
VisitOf(i) == CHOOSE k \in 1..Len(PreOrder) : PreOrder[k] = i

\* the tree nodes that have i as a child
TreeParents(i) ==
    {j \in 1..Len(joint_tree) :
        \E c \in 1..Len(joint_tree[j].children) : joint_tree[j].children[c] = i}

TreeNames == {joint_tree[i].name : i \in 1..Len(joint_tree)}

UniqueNames ==
    \A i, j \in 1..Len(joint_tree) : joint_tree[i].name = joint_tree[j].name => i = j

\* the world position of node n: the local translations summed up to the
\* scene's root
RECURSIVE WorldPosition(_)
WorldPosition(n) ==
    IF n = RootNode THEN Zero3 ELSE PAdd(WorldPosition(nodes[n].parent), nodes[n].lcl)

\* the number of bone ancestors of node n
RECURSIVE Depth(_)
Depth(n) == IF n = RootNode THEN 0 ELSE 1 + Depth(nodes[n].parent)

Resolved(name) == name \in DOMAIN joint_location_map

\* C3: every bone whose joint name has a resolved position is at that
\* position in world space, from the moment it is placed: at any depth,
\* under placed and unplaced ancestors, and through the creation and
\* placement of every later bone.
C3_BonesAtTargets ==
    \A n \in Bones :
        Resolved(nodes[n].name) => WorldPosition(n) = joint_location_map[nodes[n].name]

\* the build is over; a placed bone three levels down sits under a placed
\* parent that is away from the origin, under an unplaced grandparent, and
\* its local translation is not its world position
C3_Witness ==
    /\ BuildDone
    /\ \E n \in Bones :
        /\ Depth(n) >= 3
        /\ Resolved(nodes[n].name)
        /\ Resolved(nodes[nodes[n].parent].name)
        /\ ~Resolved(nodes[nodes[nodes[n].parent].parent].name)
        /\ WorldPosition(nodes[n].parent) # Zero3
        /\ nodes[n].lcl # joint_location_map[nodes[n].name]
        /\ WorldPosition(n) = joint_location_map[nodes[n].name]

\* C4: for a tree with unique names the build creates one bone per tree
\* node, in pre-order; the bone of a non-root tree node is a child of the
\* bone of its tree parent and the root joint's bone is a child of the
\* scene's root; the returned map has the tree's names as keys, each mapped
\* to the bone created for that tree node.
C4_OneBonePerTreeNode ==
    (BuildDone /\ UniqueNames) =>
        /\ Len(PreOrder) = Len(joint_tree)
        /\ Cardinality(Bones) = Len(joint_tree)
        /\ DOMAIN fbx_node_map = TreeNames
        /\ \A k \in 1..Len(PreOrder) :
            LET i == PreOrder[k]
                bone == nodes[BoneAt(k)]
            IN  /\ bone.name = joint_tree[i].name
                /\ IF i = 1
                   THEN bone.parent = RootNode
                   ELSE \A j \in TreeParents(i) : bone.parent = BoneAt(VisitOf(j))
                /\ fbx_node_map[joint_tree[i].name] = BoneAt(k)

\* a finished build of a unique-name tree that is stored out of visit order,
\* has a node with two children and a node two levels below the root
C4_Witness ==
    /\ pc = "done"
    /\ UniqueNames
    /\ \E k \in 1..Len(PreOrder) : PreOrder[k] # k
    /\ \E i \in 1..Len(joint_tree) : Len(joint_tree[i].children) = 2
    /\ \E n \in Bones : Depth(n) = 3
    /\ Cardinality(DOMAIN fbx_node_map) = 4

\* the number of times message was printed
Count(message) == Cardinality({i \in 1..Len(printed) : printed[i] = message})

\* C5: a tree node whose name has no resolved position still gets its bone,
\* with zero local translation, so at its parent's position; one
\* missing-position message is printed per such node; the build goes on
\* into its children, which are its bone's children and, when resolved, sit
\* at their own positions.
C5_MissingPositionTolerated ==
    BuildDone =>
        /\ Cardinality(Bones) = Len(PreOrder)
        /\ \A k \in 1..Len(PreOrder) :
            LET i == PreOrder[k]
                name == joint_tree[i].name
            IN  ~Resolved(name) =>
                    /\ nodes[BoneAt(k)].name = name
                    /\ nodes[BoneAt(k)].lcl = Zero3
                    /\ WorldPosition(BoneAt(k)) = WorldPosition(nodes[BoneAt(k)].parent)
                    /\ Count(MissingPosition(name)) =
                           Cardinality({j \in 1..Len(joint_tree) : joint_tree[j].name = name})
                    /\ \A c \in 1..Len(joint_tree[i].children) :
                        LET ci == joint_tree[i].children[c]
                            child == BoneAt(VisitOf(ci))
                        IN  /\ nodes[child].name = joint_tree[ci].name
                            /\ nodes[child].parent = BoneAt(k)
                            /\ Resolved(joint_tree[ci].name) =>
                                   WorldPosition(child) =
                                       joint_location_map[joint_tree[ci].name]

\* the build is over; an unplaced bone lies under a placed parent away from
\* the origin, another unplaced bone has a placed child, and each was
\* reported once
C5_Witness ==
    /\ BuildDone
    /\ UniqueNames
    /\ \E n \in Bones :
        /\ ~Resolved(nodes[n].name)
        /\ nodes[n].parent # RootNode
        /\ Resolved(nodes[nodes[n].parent].name)
        /\ WorldPosition(n) # Zero3
        /\ Count(MissingPosition(nodes[n].name)) = 1
    /\ \E n \in Bones :
        /\ Resolved(nodes[n].name)
        /\ nodes[n].parent # RootNode
        /\ ~Resolved(nodes[nodes[n].parent].name)
        /\ WorldPosition(n) = joint_location_map[nodes[n].name]
        /\ Count(MissingPosition(nodes[nodes[n].parent].name)) = 1

-----------------------------------------------------------------------------
(* Properties of the Skin Binder *)

\* the joints the skin binds: in the node map and in clusters
BoundNames == DOMAIN fbx_node_map \cap DOMAIN clusters

\* the nodes the bind pose has an entry for
PoseNodes == {bind_pose[i].node : i \in 1..Len(bind_pose)}

\* C2 as claimed: the finished bind pose has an entry for the mesh node and
\* for the bone of every entry of the node map.
C2_Original ==
    pc = "done" =>
        /\ MeshNode \in PoseNodes
        /\ \A name \in DOMAIN fbx_node_map : fbx_node_map[name] \in PoseNodes

\* C2 amended: the finished bind pose has one entry for the mesh node and
\* one for the bone of every node-map entry whose name has a cluster, each
\* with the node's global transform, and none for any other node; it is the
\* pose added to the scene.
C2_BindPoseOfBoundJoints ==
    pc = "done" =>
        /\ bind_pose[1].node = MeshNode
        /\ PoseNodes = {MeshNode} \cup {fbx_node_map[name] : name \in BoundNames}
        /\ Len(bind_pose) = 1 + Cardinality(BoundNames)
        /\ \A i \in 1..Len(bind_pose) :
            bind_pose[i].matrix = WorldPosition(bind_pose[i].node)
        /\ poses = <<bind_pose>>

\* a finished rig where one joint has a cluster and a pose entry away from
\* the origin and another joint of the node map has neither
C2_Witness ==
    /\ pc = "done"
    /\ \E name \in BoundNames :
        \E i \in 1..Len(bind_pose) :
            /\ bind_pose[i].node = fbx_node_map[name]
            /\ bind_pose[i].matrix # Zero3
    /\ \E name \in DOMAIN fbx_node_map :
        /\ name \notin DOMAIN clusters
        /\ fbx_node_map[name] \notin PoseNodes

\* C6: the finished skin has one cluster for each joint name that is in the
\* node map and in clusters, linked to that name's bone and holding the
\* cluster's (vertex index, weight) pairs in order, weights as given, and
\* no other cluster; a name only in clusters gives no cluster and no
\* message; a bone whose name has no cluster is the link of no cluster.
C6_SkinClusters ==
    pc = "done" =>
        /\ Len(skin) = Cardinality(BoundNames)
        /\ \A name \in BoundNames :
            \E i \in 1..Len(skin) :
                /\ skin[i].link = fbx_node_map[name]
                /\ Len(skin[i].points) = Len(clusters[name].indices)
                /\ Len(skin[i].points) = Len(clusters[name].weights)
                /\ \A j \in 1..Len(skin[i].points) :
                    skin[i].points[j] =
                        <<clusters[name].indices[j], clusters[name].weights[j]>>
        /\ \A i \in 1..Len(skin) :
            /\ nodes[skin[i].link].name \in DOMAIN clusters
            /\ skin[i].link = fbx_node_map[nodes[skin[i].link].name]
        /\ \A i \in 1..Len(printed) : printed[i].name \notin DOMAIN clusters \ TreeNames
        /\ deformers = <<skin>>

\* a finished rig with two clusters, one of them with weights that do not
\* sum to one, a cluster name that is not in the tree and a bone without a
\* cluster
C6_Witness ==
    /\ pc = "done"
    /\ Len(skin) = 2
    /\ \E i \in 1..Len(skin) : skin[i].points = <<<<0, 100>>, <<1, 50>>, <<2, 25>>>>
    /\ DOMAIN clusters \ TreeNames # {}
    /\ \E n \in Bones : \A i \in 1..Len(skin) : skin[i].link # n

-----------------------------------------------------------------------------
(* construct_rig called again and again on one RiggedModelFactory *)

\* the number of construct_rig calls on the factory
MaxCalls == 3

\* the scene construct_rig returns
ReturnedScene ==
    [vertices |-> vertices, nodes |-> nodes, skin |-> skin,
     bind_pose |-> bind_pose, deformers |-> deformers, poses |-> poses]

\* the caller keeps the returned scene and calls construct_rig again, with
\* any vertices: a new FbxScene, new locals, the same factory
ConstructRigAgain ==
    /\ pc = "done"
    /\ Len(scenes) + 1 < MaxCalls
    /\ scenes' = Append(scenes, ReturnedScene)
    /\ vertices' \in Meshes
    /\ nodes' = <<>>
    /\ joint_location_map' = EmptyDict
    /\ stack' = <<>>
    /\ fbx_node_map' = EmptyDict
    /\ todo' = {}
    /\ skin' = <<>>
    /\ bind_pose' = <<>>
    /\ deformers' = <<>>
    /\ poses' = <<>>
    /\ pc' = "set_mesh"
    /\ UNCHANGED <<joint_tree, joint_position_spec, clusters, printed,
                   relative_position_default, assets, json_doc, loaded>>

\* position specs that use the default relative position, leave out
\* RightArm, or position nothing but the hand
CallSpecs ==
    {Restrict(FullSpec, s \cup {"Hand"}) :
        s \in {ShoulderRuleNames,
               {"Neck", "LeftArm", "LeftShoulder", "RightShoulder"},
               {"RightArm", "LeftShoulder"},
               {}}}

InitCalls ==
    /\ Init
    /\ joint_position_spec \in CallSpecs

NextCalls == Next \/ ConstructRigAgain

SpecCalls == InitCalls /\ [][NextCalls]_vars

\* the factory's fields and the default list of calculate_joint_position
StaticInputs ==
    <<joint_tree, joint_position_spec, clusters, relative_position_default>>

\* every scene returned so far, the one just finished included
ReturnedScenes == scenes \o (IF pc = "done" THEN <<ReturnedScene>> ELSE <<>>)

Elements(seq) == {seq[i] : i \in 1..Len(seq)}

\* the same rig: the same nodes with the same names, parents and local
\* translations, the same clusters and the same bind pose entries (the order
\* of the clusters is the order of a dict's items)
SameRig(a, b) ==
    /\ a.nodes = b.nodes
    /\ Len(a.skin) = Len(b.skin)
    /\ Elements(a.skin) = Elements(b.skin)
    /\ Len(a.bind_pose) = Len(b.bind_pose)
    /\ Elements(a.bind_pose) = Elements(b.bind_pose)
    /\ Len(a.deformers) = 1 /\ a.deformers[1] = a.skin
    /\ Len(b.deformers) = 1 /\ b.deformers[1] = b.skin

SameVerticesSameRig ==
    \A i, j \in 1..Len(ReturnedScenes) :
        ReturnedScenes[i].vertices = ReturnedScenes[j].vertices
            => SameRig(ReturnedScenes[i], ReturnedScenes[j])

\* C11: over any sequence of construct_rig calls on one factory no step
\* changes the joint tree, the joint position spec, the clusters or the
\* default relative position, and any two calls with the same vertices,
\* wherever they are in the sequence, return the same rig.
C11_StaticInputsShared ==
    /\ [][StaticInputs' = StaticInputs]_vars
    /\ [](SameVerticesSameRig)

\* the third call has finished: the first call had the same vertices, the
\* second had others and gave another rig; a joint took the default
\* relative position and the rig has a cluster
C11_Witness ==
    /\ pc = "done"
    /\ Len(scenes) = 2
    /\ scenes[1].vertices = vertices
    /\ scenes[2].vertices # vertices
    /\ scenes[2].nodes # nodes
    /\ scenes[1].nodes = nodes
    /\ \E n \in DOMAIN joint_position_spec :
        /\ "relative_position" \notin DOMAIN joint_position_spec[n]
        /\ Len(joint_position_spec[n].reference_vertices) > 1
    /\ skin # <<>>
    /\ relative_position_default = <<1, 1, 1>>

-----------------------------------------------------------------------------
(* rig_assets.py: RigAssets.to_json and RigAssets.from_json *)

\* JointTree(name): children is None and becomes the empty list
JointTreeLeaf(name) == [name |-> name, children |-> <<>>]

\* a joint tree as an object: the JointTree objects and which one is the root
TreeObject(store, root) == [store |-> store, root |-> root]

\* Root -> (Neck -> Head, Hand), the leaves built without a children argument
TreeLeaves == <<
    JointTree("Root", <<2, 4>>),
    JointTree("Neck", <<3>>),
    JointTreeLeaf("Head"),
    JointTreeLeaf("Hand") >>

\* a tree of one node
TreeSingle == << JointTreeLeaf("Root") >>

AssetTrees == Trees \cup {TreeLeaves, TreeSingle}

\* TexturedMesh(faces, uv_indices, uv_values): Fx4, Fx4 and Nx2 arrays
TexturedMesh(faces, uv_indices, uv_values) ==
    [faces |-> faces, uv_indices |-> uv_indices, uv_values |-> uv_values]

\* two quads over six vertices, uv values in hundredths
QuadMesh ==
    TexturedMesh(<< <<0, 1, 2, 3>>, <<3, 2, 4, 5>> >>,
                 << <<0, 1, 2, 3>>, <<3, 2, 1, 0>> >>,
                 << <<0, 0>>, <<100, 0>>, <<100, 50>>, <<0, 50>> >>)

RECURSIVE Ravel(_)
\* v.ravel().tolist(): the rows one after the other
Ravel(rows) == IF rows = <<>> THEN <<>> ELSE Head(rows) \o Ravel(Tail(rows))

\* np.array(flat).reshape(-1, width)
Reshape(flat, width) ==
    [i \in 1..(Len(flat) \div width) |-> SubSeq(flat, (i - 1) * width + 1, i * width)]

\* TexturedMesh.to_json
TexturedMeshToJson(mesh) == [k \in DOMAIN mesh |-> Ravel(mesh[k])]

\* TexturedMesh.from_json
TexturedMeshFromJson(o) ==
    TexturedMesh(Reshape(o.faces, 4), Reshape(o.uv_indices, 4), Reshape(o.uv_values, 2))

RECURSIVE JointTreeToJson(_, _)
\* JointTree.to_json of the object i of store
JointTreeToJson(store, i) ==
    [name     |-> store[i].name,
     children |-> [c \in 1..Len(store[i].children) |->
                      JointTreeToJson(store, store[i].children[c])]]

RECURSIVE JointTreeFromJson(_, _), JointTreesFromJson(_, _)

\* variant: the children are not handed to the constructor
JointTreeFromJson_leaf(o, store) ==
    TreeObject(Append(store, JointTreeLeaf(o.name)), Len(store) + 1)

\* JointTree.from_json: the children are built first, in order, then the
\* node itself; store holds the objects made so far
JointTreeFromJson(o, store) ==
    LET made == JointTreesFromJson(o.children, store)
    IN  TreeObject(Append(made.store, JointTree(o.name, made.roots)),
                   Len(made.store) + 1)

\* [cls.from_json(c) for c in o['children']]
JointTreesFromJson(os, store) ==
    IF os = <<>> THEN [store |-> store, roots |-> <<>>]
    ELSE LET first == JointTreeFromJson(Head(os), store)
             rest == JointTreesFromJson(Tail(os), first.store)
         IN  [store |-> rest.store, roots |-> <<first.root>> \o rest.roots]

\* ControlPointCluster.to_json: self.__dict__
ClusterToJson(cluster) == [indices |-> cluster.indices, weights |-> cluster.weights]

\* ControlPointCluster.from_json: cls(**o)
ClusterFromJson(o) == ControlPointCluster(o.indices, o.weights)

\* RigAssets(textured_mesh, joint_tree, joint_position_spec, clusters)
RigAssets(mesh, tree, spec, cls) ==
    [kind |-> "RigAssets", textured_mesh |-> mesh, joint_tree |-> tree,
     joint_position_spec |-> spec, clusters |-> cls]

\* RigAssets.to_json
RigAssetsToJson(a) ==
    [kind |-> "json",
     textured_mesh |-> TexturedMeshToJson(a.textured_mesh),
     joint_tree |-> JointTreeToJson(a.joint_tree.store, a.joint_tree.root),
     joint_position_spec |-> a.joint_position_spec,
     clusters |-> [name \in DOMAIN a.clusters |-> ClusterToJson(a.clusters[name])]]

\* RigAssets.from_json
RigAssetsFromJson(o) ==
    RigAssets(TexturedMeshFromJson(o.textured_mesh),
              JointTreeFromJson(o.joint_tree, <<>>),
              o.joint_position_spec,
              [name \in DOMAIN o.clusters |-> ClusterFromJson(o.clusters[name])])

\* everything construct_rig works on
rig == <<vertices, joint_tree, joint_position_spec, clusters, nodes,
         joint_location_map, stack, fbx_node_map, todo, skin, bind_pose,
         deformers, poses, printed, relative_position_default, scenes>>

ToJson ==
    /\ pc = "assets"
    /\ json_doc' = RigAssetsToJson(assets)
    /\ pc' = "json"
    /\ UNCHANGED <<assets, loaded>>
    /\ UNCHANGED rig

FromJson ==
    /\ pc = "json"
    /\ loaded' = RigAssetsFromJson(json_doc)
    /\ pc' = "loaded"
    /\ UNCHANGED <<assets, json_doc>>
    /\ UNCHANGED rig

\* a RigAssets object over any of the trees, position specs and cluster maps
InitAssets ==
    /\ pc = "assets"
    /\ assets \in {RigAssets(QuadMesh, TreeObject(t, 1), spec, cls) :
                      t \in AssetTrees, spec \in PositionSpecs, cls \in ClusterSets}
    /\ json_doc = NoAssets
    /\ loaded = NoAssets
    /\ vertices = MeshA
    /\ joint_tree = TreeArm
    /\ joint_position_spec = EmptyDict
    /\ clusters = EmptyDict
    /\ nodes = <<>>
    /\ joint_location_map = EmptyDict
    /\ stack = <<>>
    /\ fbx_node_map = EmptyDict
    /\ todo = {}
    /\ skin = <<>>
    /\ bind_pose = <<>>
    /\ deformers = <<>>
    /\ poses = <<>>
    /\ printed = <<>>
    /\ relative_position_default = DefaultRelativePosition
    /\ scenes = <<>>

NextAssets == ToJson \/ FromJson

SpecAssets == InitAssets /\ [][NextAssets]_vars

RECURSIVE SameTree(_, _, _, _)
\* the trees at i of s and at j of t have the same names and the same
\* children in the same order, all the way down
SameTree(s, i, t, j) ==
    /\ s[i].name = t[j].name
    /\ Len(s[i].children) = Len(t[j].children)
    /\ \A c \in 1..Len(s[i].children) :
        SameTree(s, s[i].children[c], t, t[j].children[c])

RECURSIVE TreeSize(_, _)
\* the number of nodes of the tree at i of s
TreeSize(s, i) ==
    LET n[c \in 0..Len(s[i].children)] ==
            IF c = 0 THEN 1 ELSE n[c - 1] + TreeSize(s, s[i].children[c])
    IN  n[Len(s[i].children)]

\* C12: from_json(to_json(a)) has a joint tree with the same names and the
\* same child order at every node, leaves with an empty child list
\* included, the same joint position spec, and for every cluster name the
\* same indices and the same weights.
C12_AssetsRoundTrip ==
    pc = "loaded" =>
        /\ loaded.kind = "RigAssets"
        /\ SameTree(assets.joint_tree.store, assets.joint_tree.root,
                    loaded.joint_tree.store, loaded.joint_tree.root)
        /\ TreeSize(loaded.joint_tree.store, loaded.joint_tree.root)
               = Len(loaded.joint_tree.store)
        /\ loaded.joint_position_spec = assets.joint_position_spec
        /\ DOMAIN loaded.clusters = DOMAIN assets.clusters
        /\ \A name \in DOMAIN assets.clusters :
            /\ loaded.clusters[name].indices = assets.clusters[name].indices
            /\ loaded.clusters[name].weights = assets.clusters[name].weights

\* a round trip of a tree with a node of two children and leaves built
\* without a children argument, whose objects come back in another order,
\* with a joint that has no relative position and with three clusters
C12_Witness ==
    /\ pc = "loaded"
    /\ assets.joint_tree.store = TreeLeaves
    /\ loaded.joint_tree.store # assets.joint_tree.store
    /\ loaded.joint_tree.store[1] = JointTreeLeaf("Head")
    /\ json_doc.joint_tree.children[1].children[1] = [name |-> "Head", children |-> <<>>]
    /\ \E n \in DOMAIN loaded.joint_position_spec :
        "relative_position" \notin DOMAIN loaded.joint_position_spec[n]
    /\ Cardinality(DOMAIN loaded.clusters) = 3
    /\ loaded.textured_mesh = assets.textured_mesh

-----------------------------------------------------------------------------
(* Properties of the Skeleton Builder on a tree with a repeated joint name *)

\* the tree nodes called name
NodesNamed(name) == {i \in 1..Len(joint_tree) : joint_tree[i].name = name}

\* the names more than one tree node has
SharedNames == {name \in TreeNames : Cardinality(NodesNamed(name)) > 1}

\* the place in pre-order of the last tree node called name
LastVisit(name) ==
    CHOOSE k \in 1..Len(PreOrder) :
        /\ joint_tree[PreOrder[k]].name = name
        /\ \A m \in (k + 1)..Len(PreOrder) : joint_tree[PreOrder[m]].name # name

\* the bones of the tree nodes called name that are not the last visited
Overwritten(name) ==
    {BoneAt(k) : k \in {m \in 1..Len(PreOrder) :
        joint_tree[PreOrder[m]].name = name /\ m # LastVisit(name)}}

\* the clusters of the skin linked to a bone called name
SkinOf(name) == {i \in 1..Len(skin) : nodes[skin[i].link].name = name}

\* C13: when two tree nodes share a name the skeleton is still built to
\* the end: every tree node gets its bone, nothing is printed about the
\* collision, the returned map has one entry per name, which for every
\* name is the bone of the node visited last in pre-order; the finished
\* skin has, for a shared name with a cluster, one cluster, linked to that
\* bone, and an overwritten bone is the link of no cluster and has no bind
\* pose entry.
C13_DuplicateNameOverwrites ==
    (SharedNames # {}) =>
        /\ (pc = "extend") => ENABLED (ExtendSkeletonCall \/ ExtendSkeletonReturn)
        /\ \A i \in 1..Len(printed) :
            \E name \in TreeNames \cup {"Neck", "LeftArm", "RightArm"} :
                printed[i] \in {MissingPosition(name), UnrecognizedJoint(name)}
        /\ BuildDone =>
            /\ DOMAIN fbx_node_map = TreeNames
            /\ Cardinality(Bones) = Len(joint_tree)
            /\ \A k \in 1..Len(PreOrder) :
                nodes[BoneAt(k)].name = joint_tree[PreOrder[k]].name
            /\ \A name \in TreeNames : fbx_node_map[name] = BoneAt(LastVisit(name))
            /\ \A name \in SharedNames : fbx_node_map[name] \notin Overwritten(name)
        /\ (pc = "done") =>
            \A name \in SharedNames :
                /\ Cardinality(SkinOf(name)) = IF name \in DOMAIN clusters THEN 1 ELSE 0
                /\ \A i \in SkinOf(name) : skin[i].link = BoneAt(LastVisit(name))
                /\ \A i \in 1..Len(skin) : skin[i].link \notin Overwritten(name)
                /\ Overwritten(name) \cap PoseNodes = {}

\* a finished rig of a tree where a name is shared by a node and its
\* grandchild and another by two sibling subtrees, both names with a cluster
C13_Witness ==
    /\ pc = "done"
    /\ \E name \in SharedNames :
        \E i \in NodesNamed(name) : \E j \in TreeParents(i) : \E h \in TreeParents(j) :
            /\ h \in NodesNamed(name)
            /\ fbx_node_map[name] = BoneAt(VisitOf(i))
            /\ name \in DOMAIN clusters
    /\ \E name \in SharedNames :
        \E i, j \in NodesNamed(name) :
            /\ i # j
            /\ TreeParents(i) = TreeParents(j)
            /\ VisitOf(i) < VisitOf(j)
            /\ fbx_node_map[name] = BoneAt(VisitOf(j))
            /\ BoneAt(VisitOf(i)) \notin PoseNodes
            /\ name \in DOMAIN clusters
    /\ Len(skin) = 2
    /\ Cardinality(Bones) = 4

====
